---- MODULE Spec2Model ----
(***************************************************************************)
(* A model of the Huffman file compressor of src/main.cpp: frequency       *)
(* counting, the tree built through std::priority_queue, the substitution  *)
(* table, the container written by write_compressed_file and parsed by     *)
(* read_compressed_file, and the decode loop of decompress.                *)
(***************************************************************************)
EXTENDS Integers, Sequences, FiniteSets, TLC

\* ------------------------------------------------------------------------
\* Bounds of the model
\* ------------------------------------------------------------------------
MaxLen == 4          \* longest input handed to compress
MaxBits == 3         \* longest bit string handed directly to decompress
MemLimit == 16       \* decoded bytes the process can hold before bad_alloc

\* ------------------------------------------------------------------------
\* Constants of the program
\* ------------------------------------------------------------------------
PADDING_BIT == 48
LEFT_CHAR == 48
RIGHT_CHAR == 49
NULL_CHAR == 0
CHAR_BIT == 8
HALF == 65536       \* a uint32_t is kept as <<high 16 bits, low 16 bits>>

\* the byte values the inputs are drawn from ('A'..'D')
Alphabet == {65, 66, 67, 68}

\* ------------------------------------------------------------------------
\* Generic helpers
\* ------------------------------------------------------------------------
Min(S) == CHOOSE x \in S : \A y \in S : x <= y

RECURSIVE SortedSeq(_)
SortedSeq(S) == IF S = {} THEN <<>> ELSE <<Min(S)>> \o SortedSeq(S \ {Min(S)})

Put(m, k, v) == [x \in (DOMAIN m) \cup {k} |-> IF x = k THEN v ELSE m[x]]

EmptyMap == [x \in {} |-> 0]

RECURSIVE Pow2(_)
Pow2(n) == IF n = 0 THEN 1 ELSE 2 * Pow2(n - 1)

\* ------------------------------------------------------------------------
\* uint32_t arithmetic, exact modulo 2^32, on <<high half, low half>>
\* ------------------------------------------------------------------------
U32(n) == <<(n \div HALF) % HALF, n % HALF>>

U32Add(a, b) ==
  LET lo == a[2] + b[2]
  IN <<(a[1] + b[1] + lo \div HALF) % HALF, lo % HALF>>

\* a * k for a multiplier k below 2^15
U32Mul(a, k) ==
  LET lo == a[2] * k
  IN <<(a[1] * k + lo \div HALF) % HALF, lo % HALF>>

U32Gt(a, b) == a[1] > b[1] \/ (a[1] = b[1] /\ a[2] > b[2])

U32Small(a) == a[1] = 0

\* the value of a uint32_t below 2^16
U32Val(a) == a[2]

\* std::string(n, c)
RECURSIVE Repeat(_, _)
Repeat(n, c) == IF n = 0 THEN <<>> ELSE <<c>> \o Repeat(n - 1, c)

\* ------------------------------------------------------------------------
\* count_frequencies
\* ------------------------------------------------------------------------
RECURSIVE count_frequencies_from(_, _, _)
count_frequencies_from(data, i, frequencies) ==
  IF i > Len(data) THEN frequencies
  ELSE LET byte == data[i]
           old == IF byte \in DOMAIN frequencies THEN frequencies[byte]
                  ELSE U32(0)
       IN count_frequencies_from(data, i + 1,
                                 Put(frequencies, byte, U32Add(old, U32(1))))

count_frequencies(data) == count_frequencies_from(data, 1, EmptyMap)

\* ------------------------------------------------------------------------
\* HuffmanNode: the nodes live in an arena, a handle is an index into it and
\* 0 is nullptr; handles are handed out in allocation order.
\* ------------------------------------------------------------------------
NullNode == 0

LeafNode(byte, freq) ==
  [byte |-> byte, freq |-> freq, left |-> NullNode, right |-> NullNode]

\* the merged node with its two children exchanged
InternalNodeSwapped(nodes, l, r) ==
  [byte |-> NULL_CHAR, freq |-> U32Add(nodes[l].freq, nodes[r].freq),
   left |-> r, right |-> l]

InternalNode(nodes, l, r) ==
  [byte |-> NULL_CHAR, freq |-> U32Add(nodes[l].freq, nodes[r].freq),
   left |-> l, right |-> r]

IsLeaf(nodes, n) == nodes[n].left = NullNode /\ nodes[n].right = NullNode

greater_frequency(nodes, l, r) == U32Gt(nodes[l].freq, nodes[r].freq)

\* ------------------------------------------------------------------------
\* std::priority_queue over a vector: push_heap / pop_heap of libstdc++.
\* A heap is a sequence of handles; position p of the vector is h[p + 1].
\* ------------------------------------------------------------------------
RECURSIVE push_heap(_, _, _, _, _)
push_heap(h, nodes, holeIndex, topIndex, value) ==
  LET parent == (holeIndex - 1) \div 2 IN
  IF holeIndex > topIndex /\ greater_frequency(nodes, h[parent + 1], value)
  THEN push_heap([h EXCEPT ![holeIndex + 1] = h[parent + 1]], nodes,
                 parent, topIndex, value)
  ELSE [h EXCEPT ![holeIndex + 1] = value]

pq_push(h, nodes, value) ==
  push_heap(Append(h, value), nodes, Len(h), 0, value)

RECURSIVE adjust_heap_down(_, _, _, _, _)
adjust_heap_down(h, nodes, holeIndex, secondChild, len) ==
  IF secondChild < (len - 1) \div 2
  THEN LET sc0 == 2 * (secondChild + 1)
           sc == IF greater_frequency(nodes, h[sc0 + 1], h[sc0])
                 THEN sc0 - 1 ELSE sc0
       IN adjust_heap_down([h EXCEPT ![holeIndex + 1] = h[sc + 1]], nodes,
                           sc, sc, len)
  ELSE [h |-> h, holeIndex |-> holeIndex, secondChild |-> secondChild]

adjust_heap(h, nodes, holeIndex, len, value) ==
  LET d == adjust_heap_down(h, nodes, holeIndex, holeIndex, len)
      e == IF len % 2 = 0 /\ d.secondChild = (len - 2) \div 2
           THEN LET sc == 2 * (d.secondChild + 1)
                IN [h |-> [d.h EXCEPT ![d.holeIndex + 1] = d.h[sc]],
                    holeIndex |-> sc - 1]
           ELSE [h |-> d.h, holeIndex |-> d.holeIndex]
  IN push_heap(e.h, nodes, e.holeIndex, holeIndex, value)

\* priority_queue::pop on a non-empty queue
pq_pop(h, nodes) ==
  IF Len(h) > 1
  THEN LET last == Len(h)
           moved == [h EXCEPT ![last] = h[1]]
       IN SubSeq(adjust_heap(moved, nodes, 0, last - 1, h[last]), 1, last - 1)
  ELSE <<>>

pq_top(h) == h[1]

\* ------------------------------------------------------------------------
\* build_huffman_tree.  The result keeps the arena, the final queue and the
\* history of the merge loop: for each iteration the queue before the two
\* extractions, the queue between them and the two extracted handles.
\* ------------------------------------------------------------------------
RECURSIVE push_leaves(_, _, _, _)
push_leaves(frequencies, keys, nodes, h) ==
  IF keys = <<>> THEN [nodes |-> nodes, heap |-> h]
  ELSE LET nodes2 == Append(nodes, LeafNode(Head(keys), frequencies[Head(keys)]))
       IN push_leaves(frequencies, Tail(keys), nodes2,
                      pq_push(h, nodes2, Len(nodes2)))

RECURSIVE merge_loop(_, _, _)
merge_loop(nodes, h, merges) ==
  IF Len(h) > 1
  THEN LET left == pq_top(h)
           h1 == pq_pop(h, nodes)
           right == pq_top(h1)
           h2 == pq_pop(h1, nodes)
           nodes2 == Append(nodes, InternalNode(nodes, left, right))
       IN merge_loop(nodes2, pq_push(h2, nodes2, Len(nodes2)),
                     Append(merges, [before |-> h, between |-> h1,
                                     left |-> left, right |-> right,
                                     merged |-> Len(nodes2)]))
  ELSE [nodes |-> nodes, heap |-> h, merges |-> merges]

build_huffman_tree(frequencies) ==
  LET keys == SortedSeq(DOMAIN frequencies)
      pushed == push_leaves(frequencies, keys, <<>>, <<>>)
      m == merge_loop(pushed.nodes, pushed.heap, <<>>)
  IN [nodes |-> m.nodes, heap |-> m.heap, merges |-> m.merges,
      leaves |-> Len(keys)]

\* ------------------------------------------------------------------------
\* create_substitution_table
\* ------------------------------------------------------------------------
\* the traversal with LEFT_CHAR appended on both branches
RECURSIVE create_substitution_table_same_char(_, _, _, _)
create_substitution_table_same_char(nodes, root, table, substitute_str) ==
  IF root = NullNode THEN table
  ELSE LET t0 == IF IsLeaf(nodes, root)
                 THEN Put(table, nodes[root].byte, substitute_str)
                 ELSE table
           t1 == create_substitution_table_same_char(
                   nodes, nodes[root].left, t0,
                   Append(substitute_str, LEFT_CHAR))
       IN create_substitution_table_same_char(
            nodes, nodes[root].right, t1, Append(substitute_str, LEFT_CHAR))

RECURSIVE create_substitution_table(_, _, _, _)
create_substitution_table(nodes, root, table, substitute_str) ==
  IF root = NullNode THEN table
  ELSE LET t0 == IF IsLeaf(nodes, root)
                 THEN Put(table, nodes[root].byte, substitute_str)
                 ELSE table
           t1 == create_substitution_table(nodes, nodes[root].left, t0,
                                           Append(substitute_str, LEFT_CHAR))
       IN create_substitution_table(nodes, nodes[root].right, t1,
                                    Append(substitute_str, RIGHT_CHAR))

\* ------------------------------------------------------------------------
\* Bytes, bit strings and the widths of the build.  A build is the pair
\* (sizeof(size_t), byte order); uint32_t is 4 bytes on every build.
\* ------------------------------------------------------------------------
Builds == [sizeT : {4, 8}, bigEndian : BOOLEAN]

RECURSIVE Reverse(_)
Reverse(s) == IF s = <<>> THEN <<>> ELSE Append(Reverse(Tail(s)), Head(s))

\* the object representation of a uint32_t
U32Bytes(u, build) ==
  LET le == <<u[2] % 256, u[2] \div 256, u[1] % 256, u[1] \div 256>>
  IN IF build.bigEndian THEN Reverse(le) ELSE le

\* the object representation of a size_t holding a value below 2^32
SizeTBytes(u, build) ==
  IF build.sizeT = 4 THEN U32Bytes(u, build)
  ELSE IF build.bigEndian THEN <<0, 0, 0, 0>> \o U32Bytes(u, build)
  ELSE U32Bytes(u, build) \o <<0, 0, 0, 0>>

\* the uint32_t whose object representation is the 4 bytes b
BytesU32(b, build) ==
  LET le == IF build.bigEndian THEN Reverse(b) ELSE b
  IN <<le[4] * 256 + le[3], le[2] * 256 + le[1]>>

\* std::bitset<CHAR_BIT>(byte).to_string()
byte_to_bit_string(byte) ==
  [j \in 1..CHAR_BIT |->
     IF (byte \div Pow2(CHAR_BIT - j)) % 2 = 1 THEN RIGHT_CHAR ELSE LEFT_CHAR]

RECURSIVE bytes_to_bit_string(_)
bytes_to_bit_string(bytes) ==
  IF bytes = <<>> THEN <<>>
  ELSE byte_to_bit_string(Head(bytes)) \o bytes_to_bit_string(Tail(bytes))

\* std::bitset<CHAR_BIT>(compressed_data, i, CHAR_BIT).to_ulong() & 0xFF,
\* i counted from 0; fewer than CHAR_BIT characters fill the low bits
RECURSIVE bitset_value(_, _)
bitset_value(chars, acc) ==
  IF chars = <<>> THEN acc
  ELSE bitset_value(Tail(chars), 2 * acc + (Head(chars) - LEFT_CHAR))

RECURSIVE pack_bits(_, _)
pack_bits(compressed_data, i) ==
  IF i >= Len(compressed_data) THEN <<>>
  ELSE LET last == IF i + CHAR_BIT <= Len(compressed_data) THEN i + CHAR_BIT
                   ELSE Len(compressed_data)
       IN <<bitset_value(SubSeq(compressed_data, i + 1, last), 0) % 256>>
            \o pack_bits(compressed_data, i + CHAR_BIT)

\* ------------------------------------------------------------------------
\* write_compressed_file: the bytes of the container and the values the
\* header was written from
\* ------------------------------------------------------------------------
RECURSIVE write_frequency_table(_, _, _)
write_frequency_table(frequencies, keys, build) ==
  IF keys = <<>> THEN <<>>
  ELSE <<Head(keys)>> \o U32Bytes(frequencies[Head(keys)], build)
         \o write_frequency_table(frequencies, Tail(keys), build)

write_compressed_file(original_file_size, compressed_data0, padding, frequencies, build) ==
  LET compressed_data == compressed_data0 \o Repeat(padding, PADDING_BIT)
      data_size == Len(compressed_data) \div CHAR_BIT
      frequencies_size == Cardinality(DOMAIN frequencies)
  IN [file |-> U32Bytes(original_file_size, build)
                 \o SizeTBytes(U32(data_size), build)
                 \o U32Bytes(U32(padding), build)
                 \o SizeTBytes(U32(frequencies_size), build)
                 \o write_frequency_table(frequencies,
                                          SortedSeq(DOMAIN frequencies), build)
                 \o pack_bits(compressed_data, 0),
      compressed_data |-> compressed_data,
      data_size |-> data_size,
      frequencies_size |-> frequencies_size,
      packed |-> pack_bits(compressed_data, 0)]

\* ------------------------------------------------------------------------
\* compress, from the root build_huffman_tree returned
\* ------------------------------------------------------------------------
RECURSIVE encoded_size(_, _, _)
encoded_size(frequencies, substitution_table, keys) ==
  IF keys = <<>> THEN U32(0)
  ELSE U32Add(U32Mul(frequencies[Head(keys)],
                     Len(substitution_table[Head(keys)])),
              encoded_size(frequencies, substitution_table, Tail(keys)))

RECURSIVE substitute(_, _)
substitute(data, substitution_table) ==
  IF data = <<>> THEN <<>>
  ELSE (IF Head(data) \in DOMAIN substitution_table
        THEN substitution_table[Head(data)] ELSE <<>>)
       \o substitute(Tail(data), substitution_table)

\* the padding that is 0 for a byte-aligned code stream
compress_padding_to_zero(encodedSize) ==
  (CHAR_BIT - (U32Val(encodedSize) % CHAR_BIT)) % CHAR_BIT

compress_padding(encodedSize) == CHAR_BIT - (U32Val(encodedSize) % CHAR_BIT)

compress(data, frequencies0, tree, root, build) ==
  LET original_file_size == U32(Len(data))
      substitution_table ==
        create_substitution_table(tree.nodes, root, EmptyMap, <<>>)
      \* frequencies[pair.first] default-inserts a missing key
      frequencies ==
        [x \in (DOMAIN frequencies0) \cup (DOMAIN substitution_table) |->
           IF x \in DOMAIN frequencies0 THEN frequencies0[x] ELSE U32(0)]
      encodedSize == encoded_size(frequencies, substitution_table,
                                  SortedSeq(DOMAIN substitution_table))
      padding == compress_padding(encodedSize)
      encoded == substitute(data, substitution_table)
      w == write_compressed_file(original_file_size, encoded, padding,
                                 frequencies, build)
  IN [frequencies |-> frequencies, nodes |-> tree.nodes, root |-> root,
      merges |-> tree.merges, leaves |-> tree.leaves,
      table |-> substitution_table, encodedSize |-> encodedSize,
      padding |-> padding, encoded |-> encoded,
      data_size |-> w.data_size, frequencies_size |-> w.frequencies_size,
      packed |-> w.packed, file |-> w.file,
      returned |-> Len(w.compressed_data) \div CHAR_BIT]


\* ------------------------------------------------------------------------
\* read_compressed_file.  The stream is (file, pos, ok): a read of n bytes
\* succeeds when n bytes remain, otherwise the stream fails and every later
\* read stores nothing.  A variable no read filled is uninitialized; its
\* value is the caller-supplied g, one of the Garbage values below.
\* ------------------------------------------------------------------------
GarbageWords == {U32(0), U32(2)}
GarbageBytes == {0}
Garbage == [data_size : GarbageWords, padding : GarbageWords,
            frequencies_size : GarbageWords, ch : GarbageBytes,
            frequency : GarbageWords]

StreamOk(file, pos, ok, n) == ok /\ pos + n <= Len(file)

read_word(file, pos, ok, build, g) ==
  IF StreamOk(file, pos, ok, 4)
  THEN [val |-> BytesU32(SubSeq(file, pos + 1, pos + 4), build),
        pos |-> pos + 4, ok |-> TRUE]
  ELSE [val |-> g, pos |-> pos, ok |-> FALSE]

RECURSIVE read_frequency_table(_, _, _, _, _, _, _, _)
read_frequency_table(file, pos, ok, i, frequencies_size, frequencies, build, g) ==
  IF ~U32Gt(frequencies_size, U32(i))
  THEN [frequencies |-> frequencies, pos |-> pos, ok |-> ok]
  ELSE IF ~ok
  THEN \* every remaining iteration stores the same uninitialized pair
       [frequencies |-> Put(frequencies, g.ch, g.frequency),
        pos |-> pos, ok |-> FALSE]
  ELSE LET okc == StreamOk(file, pos, ok, 1)
           ch == IF okc THEN file[pos + 1] ELSE g.ch
           w == read_word(file, pos + 1, okc, build, g.frequency)
       IN read_frequency_table(file, w.pos, w.ok, i + 1, frequencies_size,
                               Put(frequencies, ch, w.val), build, g)

read_compressed_file(file, build, g) ==
  LET original_file_size == read_word(file, 0, TRUE, build, U32(0))
      data_size == read_word(file, original_file_size.pos,
                             original_file_size.ok, build, g.data_size)
      padding == read_word(file, data_size.pos, data_size.ok, build, g.padding)
      frequencies_size == read_word(file, padding.pos, padding.ok, build,
                                    g.frequencies_size)
      t == read_frequency_table(file, frequencies_size.pos,
                                frequencies_size.ok, 0, frequencies_size.val,
                                EmptyMap, build, g)
      n == U32Val(data_size.val)
      avail == IF ~t.ok THEN 0
               ELSE IF t.pos + n <= Len(file) THEN n ELSE Len(file) - t.pos
  IN [bad_alloc |-> ~U32Small(data_size.val),
      padding |-> padding.val,
      frequencies |-> t.frequencies,
      data |-> IF U32Small(data_size.val)
               THEN SubSeq(file, t.pos + 1, t.pos + avail)
                      \o Repeat(n - avail, 0)
               ELSE <<>>,
      header_read |-> frequencies_size.ok,
      table_read |-> t.ok]

\* ------------------------------------------------------------------------
\* decode: one walk from root.  str[index] at index = size is the string's
\* terminator; beyond it the read is out of bounds and every outcome (either
\* branch, or a fault) is possible.  The result is the set of outcomes.
\* ------------------------------------------------------------------------
ReadChar(str, index) ==
  IF index < Len(str) THEN {str[index + 1]}
  ELSE IF index = Len(str) THEN {NULL_CHAR}
  ELSE {LEFT_CHAR, RIGHT_CHAR, -1}

RECURSIVE decode(_, _, _, _, _)
decode(nodes, root, index, str, past) ==
  IF root = NullNode
  THEN {[index |-> index, emitted |-> <<>>, past |-> past, fault |-> FALSE]}
  ELSE IF IsLeaf(nodes, root)
  THEN {[index |-> index, emitted |-> <<nodes[root].byte>>, past |-> past,
         fault |-> FALSE]}
  ELSE LET index2 == index + 1
           past2 == past \/ index2 >= Len(str)
       IN UNION {IF c = -1
                 THEN {[index |-> index2, emitted |-> <<>>, past |-> past2,
                        fault |-> TRUE]}
                 ELSE IF c = LEFT_CHAR
                 THEN decode(nodes, nodes[root].left, index2, str, past2)
                 ELSE decode(nodes, nodes[root].right, index2, str, past2)
                 : c \in ReadChar(str, index2)}

\* ------------------------------------------------------------------------
\* nodeHeap.top() of build_huffman_tree: on an empty queue the returned
\* pointer is indeterminate; the outcomes kept are a fault on first use, a
\* null pointer and a pointer to a leaf-shaped node.
\* ------------------------------------------------------------------------
TreeRoots(t) ==
  IF t.heap # <<>>
  THEN {[fault |-> FALSE, tree |-> t, root |-> pq_top(t.heap)]}
  ELSE {[fault |-> TRUE, tree |-> t, root |-> NullNode],
        [fault |-> FALSE, tree |-> t, root |-> NullNode]}
       \cup {[fault |-> FALSE,
              tree |-> [t EXCEPT !.nodes = <<LeafNode(b, f)>>], root |-> 1]
             : b \in GarbageBytes, f \in GarbageWords}


\* ------------------------------------------------------------------------
\* Inputs
\* ------------------------------------------------------------------------
RECURSIVE SeqsUpTo(_, _)
SeqsUpTo(S, n) ==
  IF n = 0 THEN {<<>>}
  ELSE LET shorter == SeqsUpTo(S, n - 1)
       IN shorter \cup {Append(q, x) : q \in shorter, x \in S}

Inputs == SeqsUpTo(Alphabet, MaxLen)

\* what compress writes for a non-empty input
Container(d, build) ==
  LET f == count_frequencies(d)
      t == build_huffman_tree(f)
  IN compress(d, f, t, pq_top(t.heap), build).file

\* files decompress_to_file may be pointed at: containers cut short
SampleInputs == {<<65>>, <<65, 66>>, <<65, 66, 67, 67>>}
CutPoints == {0, 7, 15, 19, 27}
ForeignFiles(build) ==
  {SubSeq(Container(d, build), 1, k) :
     d \in SampleInputs, k \in {c \in CutPoints : c < 16 + 5}}

\* arguments decompress may be called with directly
BitStrings == SeqsUpTo({LEFT_CHAR, RIGHT_CHAR}, MaxBits)
SampleTables ==
  {count_frequencies(d) :
     d \in {<<65>>, <<65, 66>>, <<65, 66, 67, 67>>,
            <<65, 66, 67, 67, 68, 68, 68, 68>>}}
SamplePaddings == {0, 1}

\* ------------------------------------------------------------------------
\* State
\* ------------------------------------------------------------------------
VARIABLES
  build,      \* the build's widths and byte order
  pc,         \* "start", "compressed", "parsed", "decoding", "done", "crashed"
  origin,     \* how the run started: "none", "compress", "foreign", "call"
  data,       \* the argument of compress
  enc,        \* what compress computed and wrote
  file,       \* the container file
  rd,         \* what read_compressed_file returned
  tree,       \* the decoder's tree: arena and root
  bits,       \* decompress: the bit string
  index,      \* decompress: the position of the last bit consumed
  decoded,    \* decompress: the bytes emitted so far
  past,       \* whether decode read a bit at or past the end of bits
  result      \* "none", "ok", "crash", or an error kind

vars == <<build, pc, origin, data, enc, file, rd, tree, bits, index, decoded,
          past, result>>

NoEnc == [frequencies |-> EmptyMap, nodes |-> <<>>, root |-> NullNode,
          merges |-> <<>>, leaves |-> 0, table |-> EmptyMap,
          encodedSize |-> U32(0), padding |-> 0, encoded |-> <<>>,
          data_size |-> 0, frequencies_size |-> 0, packed |-> <<>>,
          file |-> <<>>, returned |-> 0]
NoRd == [bad_alloc |-> FALSE, padding |-> U32(0), frequencies |-> EmptyMap,
         data |-> <<>>, header_read |-> FALSE, table_read |-> FALSE]
NoTree == [nodes |-> <<>>, root |-> NullNode, merges |-> <<>>, leaves |-> 0]

Init ==
  /\ build \in Builds
  /\ pc = "start"
  /\ origin = "none"
  /\ data = <<>>
  /\ enc = NoEnc
  /\ file = <<>>
  /\ rd = NoRd
  /\ tree = NoTree
  /\ bits = <<>>
  /\ index = -1
  /\ decoded = <<>>
  /\ past = FALSE
  /\ result = "none"

\* compress(data, filename), called by compress_to_file
Compress(d) ==
  /\ pc = "start"
  /\ LET frequencies == count_frequencies(d)
         t == build_huffman_tree(frequencies)
     IN \E r \in TreeRoots(t) :
          IF r.fault
          THEN /\ pc' = "crashed"
               /\ result' = "crash"
               /\ UNCHANGED <<enc, file>>
          ELSE LET c == compress(d, frequencies, r.tree, r.root, build)
               IN /\ enc' = c
                  /\ file' = c.file
                  /\ pc' = "compressed"
                  /\ UNCHANGED result
  /\ data' = d
  /\ origin' = "compress"
  /\ UNCHANGED <<build, rd, tree, bits, index, decoded, past>>

\* decompress_to_file is pointed at a file this run did not write
ForeignFile(f) ==
  /\ pc = "start"
  /\ file' = f
  /\ origin' = "foreign"
  /\ pc' = "compressed"
  /\ UNCHANGED <<build, data, enc, rd, tree, bits, index, decoded, past,
                 result>>

\* decompress_to_file: read_compressed_file
ReadCompressedFile ==
  /\ pc = "compressed"
  /\ \E g \in Garbage :
       LET r == read_compressed_file(file, build, g)
       IN /\ rd' = r
          /\ IF r.bad_alloc
             THEN pc' = "crashed" /\ result' = "crash"
             ELSE pc' = "parsed" /\ UNCHANGED result
  /\ UNCHANGED <<build, origin, data, enc, file, tree, bits, index, decoded,
                 past>>

\* decompress up to its loop: the tree is rebuilt and the padding erased;
\* std::string::erase throws when its position is past the end
DecompressEnter(bits0, padding, frequencies) ==
  LET t == build_huffman_tree(frequencies)
  IN \E r \in TreeRoots(t) :
       IF r.fault \/ ~U32Small(padding) \/ U32Val(padding) > Len(bits0)
       THEN /\ pc' = "crashed"
            /\ result' = "crash"
            /\ UNCHANGED <<tree, bits, index>>
       ELSE /\ tree' = [nodes |-> r.tree.nodes, root |-> r.root,
                        merges |-> r.tree.merges, leaves |-> r.tree.leaves]
            /\ bits' = SubSeq(bits0, 1, Len(bits0) - U32Val(padding))
            /\ index' = -1
            /\ pc' = "decoding"
            /\ UNCHANGED result

\* decompress_to_file: bytes_to_bit_string and the call of decompress
DecompressFile ==
  /\ pc = "parsed"
  /\ DecompressEnter(bytes_to_bit_string(rd.data), rd.padding, rd.frequencies)
  /\ UNCHANGED <<build, origin, data, enc, file, rd, decoded, past>>

\* decompress(bits, padding, frequencies) called on its own
DecompressCall(b, p, f) ==
  /\ pc = "start"
  /\ origin' = "call"
  /\ rd' = [NoRd EXCEPT !.padding = U32(p), !.frequencies = f]
  /\ DecompressEnter(b, U32(p), f)
  /\ UNCHANGED <<build, data, enc, file, decoded, past>>

\* one iteration of the loop of decompress: a call of decode from the root
DecodeCall ==
  /\ pc = "decoding"
  /\ index < Len(bits) - 2
  /\ \E r \in decode(tree.nodes, tree.root, index, bits, FALSE) :
       /\ index' = r.index
       /\ past' = (past \/ r.past)
       /\ IF r.fault \/ Len(decoded) + Len(r.emitted) > MemLimit
          THEN pc' = "crashed" /\ result' = "crash" /\ UNCHANGED decoded
          ELSE /\ decoded' = decoded \o r.emitted
               /\ UNCHANGED <<pc, result>>
  /\ UNCHANGED <<build, origin, data, enc, file, rd, tree, bits>>

\* the loop of decompress ends and the decoded bytes are returned
DecompressReturn ==
  /\ pc = "decoding"
  /\ ~(index < Len(bits) - 2)
  /\ pc' = "done"
  /\ result' = "ok"
  /\ UNCHANGED <<build, origin, data, enc, file, rd, tree, bits, index,
                 decoded, past>>

Next ==
  \/ \E d \in Inputs : Compress(d)
  \/ \E f \in ForeignFiles(build) : ForeignFile(f)
  \/ ReadCompressedFile
  \/ DecompressFile
  \/ \E b \in BitStrings, p \in SamplePaddings, f \in SampleTables :
       DecompressCall(b, p, f)
  \/ DecodeCall
  \/ DecompressReturn

Spec == Init /\ [][Next]_vars

\* ------------------------------------------------------------------------
\* Vocabulary of the properties
\* ------------------------------------------------------------------------
Finished == pc \in {"done", "crashed"}
AfterRead == pc \in {"parsed", "decoding", "done", "crashed"}
WroteContainer == origin = "compress" /\ enc # NoEnc

IsPrefix(a, b) == Len(a) <= Len(b) /\ SubSeq(b, 1, Len(a)) = a

PrefixFree(table) ==
  \A a, b \in DOMAIN table : a # b => ~IsPrefix(table[a], table[b])

RECURSIVE CodeLengthSum(_, _)
CodeLengthSum(d, table) ==
  IF d = <<>> THEN 0 ELSE Len(table[Head(d)]) + CodeLengthSum(Tail(d), table)

Range(q) == {q[i] : i \in DOMAIN q}

\* the node an exact decoder stands on after all of str, from node at bit i
RECURSIVE WalkEnd(_, _, _, _, _)
WalkEnd(nodes, root, node, str, i) ==
  LET cur == IF IsLeaf(nodes, node) THEN root ELSE node
  IN IF i > Len(str) THEN cur
     ELSE WalkEnd(nodes, root,
                  IF str[i] = LEFT_CHAR THEN nodes[cur].left
                  ELSE nodes[cur].right, str, i + 1)

\* the number of whole codewords in str
RECURSIVE WholeCodewords(_, _, _, _, _)
WholeCodewords(nodes, root, node, str, i) ==
  LET atLeaf == IsLeaf(nodes, node)
      cur == IF atLeaf THEN root ELSE node
      n == IF atLeaf THEN 1 ELSE 0
  IN IF i > Len(str) THEN n
     ELSE n + WholeCodewords(nodes, root,
                             IF str[i] = LEFT_CHAR THEN nodes[cur].left
                             ELSE nodes[cur].right, str, i + 1)

InternalRoot == tree.root # NullNode /\ ~IsLeaf(tree.nodes, tree.root)

MidCodeword ==
  InternalRoot /\ WalkEnd(tree.nodes, tree.root, tree.root, bits, 1) # tree.root

\* a queued handle that no queued handle precedes in (frequency, insertion)
StableFirst(nodes, queued) ==
  CHOOSE n \in queued :
    \A m \in queued \ {n} :
      \/ U32Gt(nodes[m].freq, nodes[n].freq)
      \/ (nodes[m].freq = nodes[n].freq /\ n < m)

LowestFrequency(nodes, n, queued) ==
  \A m \in queued : ~U32Gt(nodes[n].freq, nodes[m].freq)

LeavesAscending(t) ==
  /\ \A i \in 1..t.leaves : IsLeaf(t.nodes, i)
  /\ \A i, j \in 1..t.leaves : i < j => t.nodes[i].byte < t.nodes[j].byte

MergeShape(t, m) ==
  /\ t.nodes[m.merged].left = m.left
  /\ t.nodes[m.merged].right = m.right
  /\ t.nodes[m.merged].freq = U32Add(t.nodes[m.left].freq, t.nodes[m.right].freq)

\* every tree this state holds that build_huffman_tree made of a non-empty table
BuiltTrees ==
  (IF WroteContainer /\ data # <<>> THEN {enc} ELSE {})
    \cup (IF pc \in {"decoding", "done"} /\ DOMAIN rd.frequencies # {}
          THEN {tree} ELSE {})

\* ------------------------------------------------------------------------
\* Properties
\* ------------------------------------------------------------------------

\* C1: compressing a non-empty byte sequence and decompressing the container
\* ends normally and yields exactly the bytes that were compressed.
C1_RoundTrip ==
  (origin = "compress" /\ data # <<>> /\ Finished)
    => (result = "ok" /\ decoded = data)

\* C2: the container is a 16-byte header of four 32-bit fields, 5 bytes per
\* table entry and the packed bytes, and read_compressed_file recovers the
\* padding, the frequency table and the packed bytes that were written.
C2_Framing ==
  (WroteContainer /\ data # <<>> /\ AfterRead)
    => /\ Len(enc.file) = 16 + 5 * enc.frequencies_size + enc.data_size
       /\ rd.padding = U32(enc.padding)
       /\ rd.frequencies = enc.frequencies
       /\ rd.data = enc.packed

\* C3: an input of n >= 1 copies of one byte value round-trips to the same
\* n bytes.
C3_SingleSymbol ==
  (origin = "compress" /\ data # <<>> /\ Cardinality(Range(data)) = 1
     /\ Finished)
    => (result = "ok" /\ decoded = data)

\* C4: compress of an empty byte sequence ends in the EmptyInput error and
\* writes no container.
C4_EmptyInput ==
  (origin = "compress" /\ data = <<>>)
    => (result = "EmptyInput" /\ file = <<>>)

\* C5: the padding compress stores is 8 - (L mod 8) for L the total code
\* length of the input, so it lies in 1..8, and the packed size written
\* satisfies packed_size * 8 = L + padding.
C5_SizeAccounting ==
  (WroteContainer /\ data # <<>>)
    => LET L == CodeLengthSum(data, enc.table)
       IN /\ enc.padding = 8 - (L % 8)
          /\ 0 < enc.padding /\ enc.padding <= 8
          /\ enc.data_size * 8 = L + enc.padding
          /\ Len(enc.packed) = enc.data_size
          /\ enc.returned = enc.data_size

\* C5 witness: a container whose code stream was already byte aligned
C5_Witness ==
  WroteContainer /\ Len(enc.encoded) = 8 /\ enc.padding = 8

\* C6: the substitution table made from the tree of a non-empty frequency
\* table has exactly one code per byte of the frequency table, and no code
\* is a prefix of another.
C6_PrefixFree ==
  \A t \in BuiltTrees :
    LET table == create_substitution_table(t.nodes, t.root, EmptyMap, <<>>)
        frequencies == IF t = tree THEN rd.frequencies ELSE enc.frequencies
    IN DOMAIN table = DOMAIN frequencies /\ PrefixFree(table)

\* C6 witness: a built tree whose table has four codes of three lengths
C6_Witness ==
  \E t \in BuiltTrees :
    LET table == create_substitution_table(t.nodes, t.root, EmptyMap, <<>>)
    IN /\ Cardinality(DOMAIN table) = 4
       /\ Cardinality({Len(table[b]) : b \in DOMAIN table}) = 3

\* C7: a container shorter than its 16-byte header, or whose table_count
\* runs past the end of the file, makes decompression end in the
\* CorruptContainer error without output.
C7_CorruptHeader ==
  (AfterRead /\ origin # "call" /\ (Len(file) < 16 \/ ~rd.table_read))
    => (result = "CorruptContainer" /\ pc \notin {"decoding", "done"}
        /\ decoded = <<>>)

\* C8: when the bit string ends inside a codeword, decompress ends in the
\* TruncatedStream error, never reads a bit at or past the end of the bit
\* string and emits no byte for the incomplete codeword.
C8_TruncatedStream ==
  (Finished /\ pc # "start" /\ tree # NoTree /\ MidCodeword)
    => /\ result = "TruncatedStream"
       /\ ~past
       /\ Len(decoded) <= WholeCodewords(tree.nodes, tree.root, tree.root,
                                         bits, 1)

\* C9: with a non-empty frequency table, every iteration of the loop of
\* decompress consumes at least one bit: it never leaves index unchanged.
C9_Progress ==
  [][(pc = "decoding" /\ pc' = "decoding" /\ DOMAIN rd.frequencies # {})
       => index' > index]_vars

\* C10 as stated: leaves are inserted in ascending byte value, equal
\* frequencies leave the queue in insertion order, the first extracted node
\* is the left child and the second the right child of the merged node,
\* whose frequency is their sum.
C10_StableTieBreak ==
  \A t \in BuiltTrees :
    /\ LeavesAscending(t)
    /\ \A k \in DOMAIN t.merges :
         LET m == t.merges[k]
         IN /\ m.left = StableFirst(t.nodes, Range(m.before))
            /\ m.right = StableFirst(t.nodes, Range(m.before) \ {m.left})
            /\ MergeShape(t, m)

\* C10 amended: leaves are inserted in ascending byte value, each extracted
\* node has the lowest frequency among the queued nodes (which of several
\* equal ones leaves first is decided by the heap, not by insertion order),
\* the first extracted node is the left child and the second the right child
\* of the merged node, whose frequency is their sum (in uint32_t arithmetic).
C10_LowestFirst ==
  \A t \in BuiltTrees :
    /\ LeavesAscending(t)
    /\ \A k \in DOMAIN t.merges :
         LET m == t.merges[k]
         IN /\ m.left \in Range(m.before)
            /\ LowestFrequency(t.nodes, m.left, Range(m.before))
            /\ m.right \in Range(m.before) \ {m.left}
            /\ LowestFrequency(t.nodes, m.right, Range(m.before) \ {m.left})
            /\ Range(m.between) = Range(m.before) \ {m.left}
            /\ MergeShape(t, m)

\* C10 witness: four queued leaves of one frequency, of which the third
\* inserted was extracted second
C10_Witness ==
  /\ WroteContainer
  /\ Len(enc.merges) = 3
  /\ \A i, j \in 1..4 : enc.nodes[i].freq = enc.nodes[j].freq
  /\ enc.merges[1].left = 1
  /\ enc.merges[1].right = 3

TypeOK == pc \in {"start", "compressed", "parsed", "decoding", "done", "crashed"}
====
